---------------------------- MODULE Spec2Model ----------------------------
(***************************************************************************)
(* Model of the vector search service: the sentence chunker and the        *)
(* rebuild of the documents table (ingest_data.py), the memoised service   *)
(* construction (app/main.py) and the pooled search with its per-document  *)
(* aggregation (app/vector_search.py).                                     *)
(*                                                                         *)
(* Characters are one-character strings; the three full-width terminators  *)
(* are written by their code points ("U3002" is the ideographic full stop, *)
(* "UFF01" the full-width exclamation mark, "UFF1F" the full-width         *)
(* question mark).  A text is a sequence of characters.                    *)
(***************************************************************************)
EXTENDS Integers, Sequences, FiniteSets, TLC

VARIABLES
    text,        \* split_into_sentences: the argument
    sentences,   \* split_into_sentences: the returned list
    chunkPc,     \* "input" before the call, "split" after it
    q,              \* perform_search: the query string
    documents,      \* VectorSearchService.documents, loaded at construction
    table,          \* the rows of the documents table the service queries
    pc,             \* perform_search / search: the position in the handler
    checkedOut,     \* connections taken from conn_pool and not yet returned
    hits,           \* search: cur.fetchall()
    raised,         \* search: the exception in flight ("none" when there is none)
    doc_scores,     \* search: the aggregation dictionary
    sorted_doc_ids, \* search: the document ids ordered by best score
    results,        \* search: the results list
    response,       \* perform_search: the HTTP response
    cache,          \* get_search_service's lru_cache entry: 0 (none) or an instance
    ctorRuns,       \* calls of VectorSearchService(settings) so far
    instances,      \* VectorSearchService instances constructed so far
    poolOut,        \* per instance: connections out of its conn_pool
    rpc,            \* per request: the position in its handler
    rkind,          \* per request: "search" or "show"
    rsvc,           \* per request: the instance Depends() gave it (0: none yet)
    rheld,          \* per request: connections it holds
    racq,           \* per request: getconn() calls that returned a connection
    rexc,           \* per request: the exception in flight
    committed,      \* the documents table as committed in the database
    txn,            \* the documents table as the ingestion connection sees it
    locked,         \* ingestion holds the table's ACCESS EXCLUSIVE lock
    ingestPc,       \* ingest_data.main: the position in the run
    failedAt,       \* the position at which the run raised ("" when it has not)
    oldChunks,      \* the rows loaded by the previous run
    newChunks,      \* chunks_to_embed of this run
    observed,       \* per reader: the table its last SELECT read
    observedAt      \* per reader: ingestPc when it read

chunkVars == <<text, sentences, chunkPc>>

searchVars == <<q, documents, table, pc, checkedOut, hits, raised, doc_scores,
                sorted_doc_ids, results, response>>

serveVars == <<cache, ctorRuns, instances, poolOut, rpc, rkind, rsvc, rheld,
               racq, rexc>>

ingestVars == <<committed, txn, locked, ingestPc, failedAt, oldChunks,
                newChunks, observed, observedAt>>

vars == <<chunkVars, searchVars, serveVars, ingestVars>>

(***************************************************************************)
(* Bounds                                                                  *)
(***************************************************************************)
MaxLen == 4

MaxIngestDocs == 5   \* documents in the corpus file when ingestion ran

NumServeDocs == 4    \* documents in the corpus file when the service loaded it

MaxScore == 1        \* scores are 0 .. MaxScore

NumRequests == 2     \* concurrent requests to the serving process

PoolSize == 1        \* connections conn_pool can hand out at a time

NumReaders == 2      \* search queries running beside an ingestion run

(***************************************************************************)
(* ingest_data.py: split_into_sentences                                    *)
(*   re.split(r'(?<=[<U3002><UFF01><UFF1F>.])\s*|\n+', text)               *)
(*   [s.strip() for s in sentences if s.strip()]                           *)
(***************************************************************************)
Terminators == {"U3002", "UFF01", "UFF1F", "."}

Whitespace == {" ", "\n"}

Alphabet == {"A", "U3002", ".", " ", "\n"}

ExampleText == <<"A", "U3002", "B", "UFF01", "C", "UFF1F", "\n", "D">>

\* text[from+1 .. to], the Python slice text[from:to]
Slice(s, from, to) == SubSeq(s, from + 1, to)

\* End offset of the longest run of characters of `set` starting at offset pos.
RECURSIVE RunEnd(_, _, _)
RunEnd(s, pos, set) ==
    IF pos < Len(s) /\ s[pos + 1] \in set THEN RunEnd(s, pos + 1, set) ELSE pos

\* The pattern without its lookbehind, [<terminators>]\s*|\n+, which would
\* consume the terminator with the whitespace after it.
MatchAtConsuming(s, pos, mustAdvance) ==
    IF pos < Len(s) /\ s[pos + 1] \in Terminators
    THEN RunEnd(s, pos + 1, Whitespace)
    ELSE IF pos < Len(s) /\ s[pos + 1] = "\n"
         THEN RunEnd(s, pos, {"\n"})
         ELSE -1

\* The match of the pattern that starts at offset pos: its end offset, or -1.
\* First alternative: a terminator stands before pos, then \s* (greedy, maybe
\* empty); second alternative: \n+.  An empty match is refused when the search
\* must advance (the previous match was empty and ended here).
MatchAt(s, pos, mustAdvance) ==
    IF pos > 0 /\ s[pos] \in Terminators
           /\ (RunEnd(s, pos, Whitespace) > pos \/ ~mustAdvance)
    THEN RunEnd(s, pos, Whitespace)
    ELSE IF pos < Len(s) /\ s[pos + 1] = "\n"
         THEN RunEnd(s, pos, {"\n"})
         ELSE -1

\* re.split: the pieces between successive matches, the last piece included.
RECURSIVE ReSplitFrom(_, _, _, _, _)
ReSplitFrom(s, pos, last, mustAdvance, acc) ==
    IF pos > Len(s)
    THEN Append(acc, Slice(s, last, Len(s)))
    ELSE LET e == MatchAt(s, pos, mustAdvance)
         IN  IF e = -1
             THEN ReSplitFrom(s, pos + 1, last, FALSE, acc)
             ELSE ReSplitFrom(s, e, e, e = pos,
                              Append(acc, Slice(s, last, pos)))

ReSplit(s) == ReSplitFrom(s, 0, 0, FALSE, <<>>)

\* str.strip(): leading and trailing whitespace removed.
RECURSIVE LStrip(_)
LStrip(s) == IF s # <<>> /\ Head(s) \in Whitespace THEN LStrip(Tail(s)) ELSE s

RECURSIVE RStrip(_)
RStrip(s) ==
    IF s # <<>> /\ s[Len(s)] \in Whitespace
    THEN RStrip(SubSeq(s, 1, Len(s) - 1))
    ELSE s

Strip(s) == RStrip(LStrip(s))

\* [s.strip() for s in pieces if s.strip()]
RECURSIVE StripNonEmpty(_)
StripNonEmpty(pieces) ==
    IF pieces = <<>>
    THEN <<>>
    ELSE IF Strip(Head(pieces)) # <<>>
         THEN <<Strip(Head(pieces))>> \o StripNonEmpty(Tail(pieces))
         ELSE StripNonEmpty(Tail(pieces))

split_into_sentences(s) == StripNonEmpty(ReSplit(s))

\* Every text over the alphabet of at most n characters.
RECURSIVE TextsUpTo(_)
TextsUpTo(n) ==
    IF n = 0
    THEN {<<>>}
    ELSE LET shorter == TextsUpTo(n - 1)
         IN  shorter \cup {Append(t, c) : t \in shorter, c \in Alphabet}

(***************************************************************************)
(* ingest_data.py: main, steps 2 (the chunk list)                          *)
(***************************************************************************)
\* The corpus file: document i (0-based) has title "T<i>", an overview of one
\* sentence and, when i is even, a body of one more sentence.
CorpusDoc(i) ==
    [title    |-> "T" \o ToString(i),
     overview |-> <<"A", ".">>,
     body     |-> IF i % 2 = 0 THEN <<"B">> ELSE <<>>]

Corpus(n) == [i \in 1..n |-> CorpusDoc(i - 1)]

\* f"{overview}\n{body}".strip()
full_text(doc) == Strip(doc.overview \o <<"\n">> \o doc.body)

\* The rows appended for document i: one per sentence, content "<title>: <sentence>".
RECURSIVE DocChunks(_, _, _)
DocChunks(i, title, chunks) ==
    IF chunks = <<>>
    THEN <<>>
    ELSE <<[original_doc_id |-> i,
            content |-> <<title, ":", " ">> \o Head(chunks)]>>
         \o DocChunks(i, title, Tail(chunks))

\* for i, doc in enumerate(documents): ... chunks_to_embed.append(...)
RECURSIVE ChunksFrom(_, _)
ChunksFrom(corpus, i) ==
    IF i >= Len(corpus)
    THEN <<>>
    ELSE DocChunks(i, corpus[i + 1].title,
                   split_into_sentences(full_text(corpus[i + 1])))
         \o ChunksFrom(corpus, i + 1)

chunks_to_embed(corpus) == ChunksFrom(corpus, 0)

(***************************************************************************)
(* app/vector_search.py: VectorSearchService.search                        *)
(***************************************************************************)
SEARCH_K == 3

SnippetLen == 100

Scores == 0..MaxScore

Min(a, b) == IF a < b THEN a ELSE b

LimitPlusOne(rows, k) == Min(k + 1, Len(rows))

\* LIMIT %s: the number of rows the query returns.
Limit(rows, k) == Min(k, Len(rows))

\* Every sequence of n distinct indexes of rows.
RECURSIVE Picks(_, _)
Picks(idx, n) ==
    IF n = 0
    THEN {<<>>}
    ELSE UNION {{<<i>> \o p : p \in Picks(idx \ {i}, n - 1)} : i \in idx}

\* What cur.fetchall() may return: Limit(rows, k) distinct rows, each with a
\* score.  The order and the scores depend on the query vector; neither is
\* constrained here.
QueryHits(rows, k) ==
    {[j \in 1..Len(p) |->
        [content |-> rows[p[j]].content,
         original_doc_id |-> rows[p[j]].original_doc_id,
         score |-> sc[j]]] :
       p \in Picks(1..Len(rows), Limit(rows, k)),
       sc \in [1..Limit(rows, k) -> Scores]}

\* get_connection: whether putconn runs when the with-body ended with
\* exception exc ("none": it ended normally).  It stands in a finally clause.
PutsBackOnSuccessOnly(exc) == exc = "none"

PutsBack(exc) == TRUE

\* score > doc_scores[original_doc_id]["score"]
ReplacesOnTie(score, best) == score >= best

ReplacesAlways(score, best) == TRUE

Replaces(score, best) == score > best

\* doc_scores is a dict: keys holds its keys in insertion order, best its values.
EmptyDict == [keys |-> <<>>, best |-> <<>>]

Seen(ds, id) == \E i \in 1..Len(ds.keys) : ds.keys[i] = id

Value(ds, id) == ds.best[CHOOSE i \in 1..Len(ds.keys) : ds.keys[i] = id]

\* doc_scores[id] = value: a new key goes last, an old key keeps its place.
SetItem(ds, id, value) ==
    IF Seen(ds, id)
    THEN [ds EXCEPT !.best[CHOOSE i \in 1..Len(ds.keys) : ds.keys[i] = id] = value]
    ELSE [keys |-> Append(ds.keys, id), best |-> Append(ds.best, value)]

\* The body of `for hit in hits`.
AggregateHit(ds, hit) ==
    IF ~Seen(ds, hit.original_doc_id)
           \/ Replaces(hit.score, Value(ds, hit.original_doc_id).score)
    THEN SetItem(ds, hit.original_doc_id,
                 [score |-> hit.score, hit_chunk |-> hit.content])
    ELSE ds

RECURSIVE Aggregate(_, _)
Aggregate(ds, hs) ==
    IF hs = <<>> THEN ds ELSE Aggregate(AggregateHit(ds, Head(hs)), Tail(hs))

\* sorted(..., reverse=True) is stable: an id goes after every id already
\* placed whose score is greater than or equal to its own.
RECURSIVE InsertDesc(_, _, _)
InsertDesc(sorted, id, ds) ==
    IF sorted = <<>>
    THEN <<id>>
    ELSE IF Value(ds, Head(sorted)).score >= Value(ds, id).score
         THEN <<Head(sorted)>> \o InsertDesc(Tail(sorted), id, ds)
         ELSE <<id>> \o sorted

RECURSIVE SortDesc(_, _, _)
SortDesc(sorted, keys, ds) ==
    IF keys = <<>>
    THEN sorted
    ELSE SortDesc(InsertDesc(sorted, Head(keys), ds), Tail(keys), ds)

SortedUnsorted(ds) == ds.keys

\* sorted(doc_scores.keys(), key=lambda doc_id: doc_scores[doc_id]["score"], reverse=True)
Sorted(ds) == SortDesc(<<>>, ds.keys, ds)

\* list[i] in Python: in range when -len <= i < len, a negative i counts from the end.
InRange(list, i) == -Len(list) <= i /\ i < Len(list)

GetItem(list, i) == IF i >= 0 THEN list[i + 1] ELSE list[Len(list) + i + 1]

\* (doc.get(<overview>, "") or "")[:100] + "..."
Snippet(doc) ==
    SubSeq(doc.overview, 1, Min(SnippetLen, Len(doc.overview))) \o <<".", ".", ".">>

\* One entry of results.
ResultOf(docs, ds, id) ==
    [title            |-> GetItem(docs, id).title,
     overview_snippet |-> Snippet(GetItem(docs, id)),
     score            |-> Value(ds, id).score,
     hit_chunk        |-> Value(ds, id).hit_chunk]

(***************************************************************************)
(* app/main.py: perform_search, and VectorSearchService.search step by step *)
(***************************************************************************)
Queries == {<<" ">>, <<"X">>}

NoResponse == [status |-> 0, detail |-> "", results |-> <<>>]

SearchInit ==
    /\ q \in Queries
    /\ documents = Corpus(NumServeDocs)
    /\ table \in {chunks_to_embed(Corpus(m)) : m \in 1..MaxIngestDocs}
    /\ pc = "request"
    /\ checkedOut = 0
    /\ hits = <<>>
    /\ raised = "none"
    /\ doc_scores = EmptyDict
    /\ sorted_doc_ids = <<>>
    /\ results = <<>>
    /\ response = NoResponse

\* if not q.strip(): raise HTTPException(status_code=400, ...)
RejectEmpty ==
    /\ pc = "request"
    /\ Strip(q) = <<>>
    /\ response' = [status |-> 400, detail |-> "Query cannot be empty.",
                    results |-> <<>>]
    /\ pc' = "done"
    /\ UNCHANGED <<q, documents, table, checkedOut, hits, raised, doc_scores,
                   sorted_doc_ids, results>>

\* search_service.search(q): query_vector = self.model.encode(query)
Encode ==
    /\ pc = "request"
    /\ Strip(q) # <<>>
    /\ \/ pc' = "getconn" /\ UNCHANGED raised
       \/ pc' = "caught" /\ raised' = "EncodeError"
    /\ UNCHANGED <<q, documents, table, checkedOut, hits, doc_scores,
                   sorted_doc_ids, results, response>>

\* get_connection: conn = self.conn_pool.getconn()
GetConn ==
    /\ pc = "getconn"
    /\ checkedOut' = checkedOut + 1
    /\ pc' = "query"
    /\ UNCHANGED <<q, documents, table, hits, raised, doc_scores,
                   sorted_doc_ids, results, response>>

\* conn.cursor(), cur.execute(SELECT ... LIMIT %s), hits = cur.fetchall()
Query ==
    /\ pc = "query"
    /\ \/ \E h \in QueryHits(table, SEARCH_K) : hits' = h /\ UNCHANGED raised
       \/ raised' = "DatabaseError" /\ UNCHANGED hits
    /\ pc' = "putconn"
    /\ UNCHANGED <<q, documents, table, checkedOut, doc_scores,
                   sorted_doc_ids, results, response>>

\* get_connection: finally: self.conn_pool.putconn(conn)
PutConn ==
    /\ pc = "putconn"
    /\ checkedOut' = IF PutsBack(raised) THEN checkedOut - 1 ELSE checkedOut
    /\ pc' = IF raised = "none" THEN "aggregate" ELSE "caught"
    /\ UNCHANGED <<q, documents, table, hits, raised, doc_scores,
                   sorted_doc_ids, results, response>>

\* doc_scores = {}; for hit in hits: ...
AggregateHits ==
    /\ pc = "aggregate"
    /\ doc_scores' = Aggregate(EmptyDict, hits)
    /\ pc' = "sort"
    /\ UNCHANGED <<q, documents, table, checkedOut, hits, raised,
                   sorted_doc_ids, results, response>>

\* sorted_doc_ids = sorted(...)
SortDocIds ==
    /\ pc = "sort"
    /\ sorted_doc_ids' = Sorted(doc_scores)
    /\ pc' = "build"
    /\ UNCHANGED <<q, documents, table, checkedOut, hits, raised, doc_scores,
                   results, response>>

\* for doc_id in sorted_doc_ids: doc = self.documents[doc_id]; results.append(...)
\* documents[doc_id] raises IndexError at the first id that is out of range.
BuildResults ==
    /\ pc = "build"
    /\ IF \A i \in 1..Len(sorted_doc_ids) : InRange(documents, sorted_doc_ids[i])
       THEN /\ results' = [i \in 1..Len(sorted_doc_ids) |->
                              ResultOf(documents, doc_scores, sorted_doc_ids[i])]
            /\ pc' = "return"
            /\ UNCHANGED raised
       ELSE /\ raised' = "IndexError"
            /\ pc' = "caught"
            /\ UNCHANGED results
    /\ UNCHANGED <<q, documents, table, checkedOut, hits, doc_scores,
                   sorted_doc_ids, response>>

\* return {"query": query, "results": results}
Return ==
    /\ pc = "return"
    /\ response' = [status |-> 200, detail |-> "", results |-> results]
    /\ pc' = "done"
    /\ UNCHANGED <<q, documents, table, checkedOut, hits, raised, doc_scores,
                   sorted_doc_ids, results>>

\* except Exception as e: raise HTTPException(status_code=500, detail=...{e})
Caught ==
    /\ pc = "caught"
    /\ response' = [status |-> 500, detail |-> raised, results |-> <<>>]
    /\ pc' = "done"
    /\ UNCHANGED <<q, documents, table, checkedOut, hits, raised, doc_scores,
                   sorted_doc_ids, results>>

SearchIdle ==
    /\ q = <<>>
    /\ documents = <<>>
    /\ table = <<>>
    /\ pc = "off"
    /\ checkedOut = 0
    /\ hits = <<>>
    /\ raised = "none"
    /\ doc_scores = EmptyDict
    /\ sorted_doc_ids = <<>>
    /\ results = <<>>
    /\ response = NoResponse

ChunkInit ==
    /\ text \in TextsUpTo(MaxLen) \cup {ExampleText}
    /\ sentences = <<>>
    /\ chunkPc = "input"

ChunkIdle ==
    /\ text = <<>>
    /\ sentences = <<>>
    /\ chunkPc = "off"

SplitIntoSentences ==
    /\ chunkPc = "input"
    /\ sentences' = split_into_sentences(text)
    /\ chunkPc' = "split"
    /\ UNCHANGED text

(***************************************************************************)
(* app/main.py: the serving process.  Requests run concurrently (the       *)
(* handlers and get_search_service are plain functions, which the          *)
(* framework runs on worker threads); each resolves                        *)
(* Depends(get_search_service) through functools.lru_cache and then runs   *)
(* its handler.                                                            *)
(***************************************************************************)
Requests == 1..NumRequests

ServeInit ==
    /\ cache = 0
    /\ ctorRuns = 0
    /\ instances = 0
    /\ poolOut = [i \in Requests |-> 0]
    /\ rpc = [r \in Requests |-> "new"]
    /\ rkind = [r \in Requests |-> "search"]
    /\ rsvc = [r \in Requests |-> 0]
    /\ rheld = [r \in Requests |-> 0]
    /\ racq = [r \in Requests |-> 0]
    /\ rexc = [r \in Requests |-> "none"]

ServeIdle ==
    /\ cache = 0
    /\ ctorRuns = 0
    /\ instances = 0
    /\ poolOut = <<>>
    /\ rpc = <<>>
    /\ rkind = <<>>
    /\ rsvc = <<>>
    /\ rheld = <<>>
    /\ racq = <<>>
    /\ rexc = <<>>

\* A request for /search or /show arrives.
Arrive(r) ==
    /\ rpc[r] = "new"
    /\ \E k \in {"search", "show"} : rkind' = [rkind EXCEPT ![r] = k]
    /\ rpc' = [rpc EXCEPT ![r] = "depends"]
    /\ UNCHANGED <<cache, ctorRuns, instances, poolOut, rsvc, rheld, racq, rexc>>

\* lru_cache wrapper, first half: a hit returns the cached instance; a miss
\* goes on to call the wrapped function, outside the cache's lock.
CacheLookup(r) ==
    /\ rpc[r] = "depends"
    /\ IF cache # 0
       THEN /\ rsvc' = [rsvc EXCEPT ![r] = cache]
            /\ rpc' = [rpc EXCEPT ![r] = "handler"]
       ELSE /\ rpc' = [rpc EXCEPT ![r] = "construct"]
            /\ UNCHANGED rsvc
    /\ UNCHANGED <<cache, ctorRuns, instances, poolOut, rkind, rheld, racq, rexc>>

\* get_search_service: return VectorSearchService(settings), or on an
\* exception of the constructor raise HTTPException(500).  An exception
\* leaves the cache as it was.
Construct(r) ==
    /\ rpc[r] = "construct"
    /\ ctorRuns' = ctorRuns + 1
    /\ \/ /\ instances' = instances + 1
          /\ rsvc' = [rsvc EXCEPT ![r] = instances + 1]
          /\ rpc' = [rpc EXCEPT ![r] = "store"]
          /\ UNCHANGED rexc
       \/ /\ rexc' = [rexc EXCEPT ![r] = "InitError"]
          /\ rpc' = [rpc EXCEPT ![r] = "done"]
          /\ UNCHANGED <<instances, rsvc>>
    /\ UNCHANGED <<cache, poolOut, rkind, rheld, racq>>

\* lru_cache wrapper, second half: the result is stored unless the key was
\* added meanwhile; either way the caller gets the result it computed.
CacheStore(r) ==
    /\ rpc[r] = "store"
    /\ cache' = IF cache = 0 THEN rsvc[r] ELSE cache
    /\ rpc' = [rpc EXCEPT ![r] = "handler"]
    /\ UNCHANGED <<ctorRuns, instances, poolOut, rkind, rsvc, rheld, racq, rexc>>

\* show_all_documents: return {"documents": search_service.documents}
Show(r) ==
    /\ rpc[r] = "handler"
    /\ rkind[r] = "show"
    /\ rpc' = [rpc EXCEPT ![r] = "done"]
    /\ UNCHANGED <<cache, ctorRuns, instances, poolOut, rkind, rsvc, rheld,
                   racq, rexc>>

\* perform_search -> search: query_vector = self.model.encode(query)
ServeEncode(r) ==
    /\ rpc[r] = "handler"
    /\ rkind[r] = "search"
    /\ \/ rpc' = [rpc EXCEPT ![r] = "getconn"] /\ UNCHANGED rexc
       \/ /\ rpc' = [rpc EXCEPT ![r] = "done"]
          /\ rexc' = [rexc EXCEPT ![r] = "EncodeError"]
    /\ UNCHANGED <<cache, ctorRuns, instances, poolOut, rkind, rsvc, rheld, racq>>

\* get_connection: conn = self.conn_pool.getconn(), which waits for a free
\* connection.
ServeGetConn(r) ==
    /\ rpc[r] = "getconn"
    /\ poolOut[rsvc[r]] < PoolSize
    /\ poolOut' = [poolOut EXCEPT ![rsvc[r]] = @ + 1]
    /\ rheld' = [rheld EXCEPT ![r] = @ + 1]
    /\ racq' = [racq EXCEPT ![r] = @ + 1]
    /\ rpc' = [rpc EXCEPT ![r] = "query"]
    /\ UNCHANGED <<cache, ctorRuns, instances, rkind, rsvc, rexc>>

\* getconn() gives up waiting and raises; no connection was taken.
ServeGetConnTimeout(r) ==
    /\ rpc[r] = "getconn"
    /\ poolOut[rsvc[r]] >= PoolSize
    /\ rexc' = [rexc EXCEPT ![r] = "PoolTimeout"]
    /\ rpc' = [rpc EXCEPT ![r] = "done"]
    /\ UNCHANGED <<cache, ctorRuns, instances, poolOut, rkind, rsvc, rheld, racq>>

\* The with-body: conn.cursor(), cur.execute(...), cur.fetchall(); any of
\* them may raise.
ServeQuery(r) ==
    /\ rpc[r] = "query"
    /\ \/ UNCHANGED rexc
       \/ \E e \in {"CursorError", "ExecuteError", "FetchError"} :
              rexc' = [rexc EXCEPT ![r] = e]
    /\ rpc' = [rpc EXCEPT ![r] = "putconn"]
    /\ UNCHANGED <<cache, ctorRuns, instances, poolOut, rkind, rsvc, rheld, racq>>

\* get_connection: finally: self.conn_pool.putconn(conn)
ServePutConn(r) ==
    /\ rpc[r] = "putconn"
    /\ IF PutsBack(rexc[r])
       THEN /\ poolOut' = [poolOut EXCEPT ![rsvc[r]] = @ - 1]
            /\ rheld' = [rheld EXCEPT ![r] = @ - 1]
       ELSE UNCHANGED <<poolOut, rheld>>
    /\ rpc' = [rpc EXCEPT ![r] = IF rexc[r] = "none" THEN "aggregate" ELSE "done"]
    /\ UNCHANGED <<cache, ctorRuns, instances, rkind, rsvc, racq, rexc>>

\* The rest of search, on the request's own data: aggregation, sort and the
\* document lookups, which end normally or with IndexError.
ServeFinish(r) ==
    /\ rpc[r] = "aggregate"
    /\ \/ UNCHANGED rexc
       \/ rexc' = [rexc EXCEPT ![r] = "IndexError"]
    /\ rpc' = [rpc EXCEPT ![r] = "done"]
    /\ UNCHANGED <<cache, ctorRuns, instances, poolOut, rkind, rsvc, rheld, racq>>

(***************************************************************************)
(* Properties of the serving process                                       *)
(***************************************************************************)
\* C2: a search holds at most one connection, holds it exactly over its store
\* query, took exactly one by the time it has queried, and has returned it on
\* every exit path: when every request has ended nothing is checked out.
C2_ConnectionReleased ==
    /\ \A r \in Requests :
          /\ rheld[r] <= 1
          /\ racq[r] <= 1
          /\ rheld[r] = 1 <=> rpc[r] \in {"query", "putconn"}
          /\ rpc[r] \in {"query", "putconn", "aggregate"} => racq[r] = 1
          /\ rpc[r] = "done" => rheld[r] = 0
    /\ \A i \in Requests :
          poolOut[i] = Cardinality({r \in Requests : rsvc[r] = i /\ rheld[r] = 1})
    /\ (\A r \in Requests : rpc[r] = "done") => \A i \in Requests : poolOut[i] = 0

\* C2 witness: every request has ended, one of them a search whose store query
\* raised after it had taken a connection.
C2_Witness ==
    /\ \A r \in Requests : rpc[r] = "done"
    /\ \E r \in Requests : racq[r] = 1 /\ rexc[r] = "ExecuteError"
    /\ \A i \in Requests : poolOut[i] = 0

\* C5: the VectorSearchService constructor runs at most once and every request
\* that got a service got the same instance.
C5_ConstructedOnce ==
    /\ ctorRuns <= 1
    /\ \A r1, r2 \in Requests :
          (rsvc[r1] # 0 /\ rsvc[r2] # 0) => rsvc[r1] = rsvc[r2]

(***************************************************************************)
(* ingest_data.py: main, steps 4 to 6, beside the SELECT of search.        *)
(*                                                                         *)
(* psycopg.connect() is called without autocommit, so the first statement  *)
(* opens a transaction; leaving `with psycopg.connect(...) as conn`        *)
(* commits it, and leaving it by an exception rolls it back.  DROP TABLE   *)
(* takes the table's ACCESS EXCLUSIVE lock until the transaction ends, and *)
(* a SELECT on the table waits for it.                                     *)
(***************************************************************************)
Readers == 1..NumReaders

AutocommitOn == TRUE

\* psycopg.connect(settings.get_db_connection_string()): autocommit is off.
Autocommit == FALSE

NoTable == [exists |-> FALSE, rows |-> <<>>, indexed |-> FALSE]

NotRead == [read |-> FALSE, exists |-> FALSE, rows |-> <<>>]

\* The committed table after a statement that left the connection's view at t.
AfterStatement(t, c) == IF Autocommit THEN t ELSE c

IngestInit ==
    /\ oldChunks \in {chunks_to_embed(Corpus(m)) : m \in 1..MaxIngestDocs}
    /\ newChunks \in {chunks_to_embed(Corpus(m)) : m \in 1..MaxIngestDocs}
    /\ committed = [exists |-> TRUE, rows |-> oldChunks, indexed |-> TRUE]
    /\ txn = committed
    /\ locked = FALSE
    /\ ingestPc = "start"
    /\ failedAt = ""
    /\ observed = [r \in Readers |-> NotRead]
    /\ observedAt = [r \in Readers |-> ""]

IngestIdle ==
    /\ oldChunks = <<>>
    /\ newChunks = <<>>
    /\ committed = NoTable
    /\ txn = NoTable
    /\ locked = FALSE
    /\ ingestPc = "off"
    /\ failedAt = ""
    /\ observed = <<>>
    /\ observedAt = <<>>

\* with psycopg.connect(...) as conn: with conn.cursor() as cur:
Connect ==
    /\ ingestPc = "start"
    /\ ingestPc' = "connected"
    /\ txn' = committed
    /\ UNCHANGED <<committed, locked, failedAt, oldChunks, newChunks, observed,
                   observedAt>>

\* cur.execute("DROP TABLE IF EXISTS documents;")
DropTable ==
    /\ ingestPc = "connected"
    /\ txn' = NoTable
    /\ committed' = AfterStatement(txn', committed)
    /\ locked' = (~Autocommit /\ txn.exists)
    /\ ingestPc' = "dropped"
    /\ UNCHANGED <<failedAt, oldChunks, newChunks, observed, observedAt>>

\* cur.execute("CREATE TABLE documents (...)")
CreateTable ==
    /\ ingestPc = "dropped"
    /\ txn' = [exists |-> TRUE, rows |-> <<>>, indexed |-> FALSE]
    /\ committed' = AfterStatement(txn', committed)
    /\ ingestPc' = "copying"
    /\ UNCHANGED <<locked, failedAt, oldChunks, newChunks, observed, observedAt>>

\* with cur.copy(...) as copy: for i, chunk in enumerate(...): copy.write_row(...)
\* The rows of a COPY become visible to others no earlier than its end.
CopyRow ==
    /\ ingestPc = "copying"
    /\ Len(txn.rows) < Len(newChunks)
    /\ txn' = [txn EXCEPT !.rows = Append(@, newChunks[Len(txn.rows) + 1])]
    /\ UNCHANGED <<committed, locked, ingestPc, failedAt, oldChunks, newChunks,
                   observed, observedAt>>

\* The end of the copy block.
CopyEnd ==
    /\ ingestPc = "copying"
    /\ Len(txn.rows) = Len(newChunks)
    /\ committed' = AfterStatement(txn, committed)
    /\ ingestPc' = "copied"
    /\ UNCHANGED <<txn, locked, failedAt, oldChunks, newChunks, observed,
                   observedAt>>

\* cur.execute("CREATE INDEX ON documents USING ivfflat ...")
CreateIndex ==
    /\ ingestPc = "copied"
    /\ txn' = [txn EXCEPT !.indexed = TRUE]
    /\ committed' = AfterStatement(txn', committed)
    /\ ingestPc' = "indexed"
    /\ UNCHANGED <<locked, failedAt, oldChunks, newChunks, observed, observedAt>>

\* Leaving the connection block normally: commit.
Commit ==
    /\ ingestPc = "indexed"
    /\ committed' = txn
    /\ locked' = FALSE
    /\ ingestPc' = "done"
    /\ UNCHANGED <<txn, failedAt, oldChunks, newChunks, observed, observedAt>>

\* A statement raises, or the process dies: the block is left by an exception
\* (or the connection is lost) and the open transaction is rolled back.
IngestFails ==
    /\ ingestPc \in {"connected", "dropped", "copying", "copied", "indexed"}
    /\ failedAt' = ingestPc
    /\ txn' = committed
    /\ locked' = FALSE
    /\ ingestPc' = "failed"
    /\ UNCHANGED <<committed, oldChunks, newChunks, observed, observedAt>>

\* search: SELECT content, original_doc_id, ... FROM documents ..., which
\* reads the committed table once no conflicting lock is held.
ReaderSelect(r) ==
    /\ ~locked
    /\ observed' = [observed EXCEPT ![r] =
                       [read |-> TRUE, exists |-> committed.exists,
                        rows |-> committed.rows]]
    /\ observedAt' = [observedAt EXCEPT ![r] = ingestPc]
    /\ UNCHANGED <<committed, txn, locked, ingestPc, failedAt, oldChunks,
                   newChunks>>

(***************************************************************************)
(* Properties of the rebuild                                               *)
(***************************************************************************)
\* C1: every query beside an ingestion run reads an existing table holding
\* either the complete previous rows or the complete new rows.
C1_AtomicRebuild ==
    \A r \in Readers :
        observed[r].read =>
            /\ observed[r].exists
            /\ observed[r].rows # <<>>
            /\ observed[r].rows \in {oldChunks, newChunks}

\* C1 witness: the run has replaced the rows; one query read the previous
\* rows after the run had connected and another read the new rows.
C1_Witness ==
    /\ ingestPc = "done"
    /\ oldChunks # newChunks
    /\ \E r1, r2 \in Readers :
          /\ observed[r1].read /\ observed[r1].rows = oldChunks
          /\ observedAt[r1] = "connected"
          /\ observed[r2].read /\ observed[r2].rows = newChunks

\* C3: after a failed run the store holds the previous complete rows, and
\* every query so far, during or after the run, read them.
C3_FailureKeepsPrevious ==
    ingestPc = "failed" =>
        /\ committed = [exists |-> TRUE, rows |-> oldChunks, indexed |-> TRUE]
        /\ \A r \in Readers :
              observed[r].read =>
                  observed[r].exists /\ observed[r].rows = oldChunks

\* C3 witness: the run failed in the middle of the bulk copy and a query
\* issued afterwards read the previous rows.
C3_Witness ==
    /\ ingestPc = "failed"
    /\ failedAt = "copying"
    /\ oldChunks # newChunks
    /\ \E r \in Readers :
          /\ observed[r].read
          /\ observedAt[r] = "failed"
          /\ observed[r].rows = oldChunks

(***************************************************************************)
(* Properties of the chunker                                               *)
(***************************************************************************)
RECURSIVE Flatten(_)
Flatten(ss) == IF ss = <<>> THEN <<>> ELSE Head(ss) \o Flatten(Tail(ss))

NonSpace(s) == SelectSeq(s, LAMBDA c : c \notin Whitespace)

Has(s, set) == \E i \in 1..Len(s) : s[i] \in set

Trimmed(s) == s # <<>> /\ s[1] \notin Whitespace /\ s[Len(s)] \notin Whitespace

\* C9 as stated: the example splits into A, B, C, D; no chunk contains a
\* sentence-terminal delimiter or a newline; none is empty or has surrounding
\* whitespace.
C9_DelimitersStripped ==
    chunkPc = "split" =>
        /\ text = ExampleText =>
              sentences = << <<"A">>, <<"B">>, <<"C">>, <<"D">> >>
        /\ \A i \in 1..Len(sentences) :
              /\ ~Has(sentences[i], Terminators \cup {"\n"})
              /\ Trimmed(sentences[i])

\* C9 amended: the split falls after each terminator, which stays at the end
\* of its chunk.  The example splits into A<U3002>, B<UFF01>, C<UFF1F>, D; no
\* chunk contains a newline, a terminator occurs in a chunk only as its last
\* character, none is empty or has surrounding whitespace, and the chunks in
\* order hold exactly the non-whitespace characters of the text in order.
C9_DelimitersKept ==
    chunkPc = "split" =>
        /\ text = ExampleText =>
              sentences = << <<"A", "U3002">>, <<"B", "UFF01">>,
                             <<"C", "UFF1F">>, <<"D">> >>
        /\ \A i \in 1..Len(sentences) :
              /\ ~Has(sentences[i], {"\n"})
              /\ \A j \in 1..(Len(sentences[i]) - 1) :
                    sentences[i][j] \notin Terminators
              /\ Trimmed(sentences[i])
        /\ NonSpace(Flatten(sentences)) = NonSpace(text)

\* C9 witness: the example text has been split into its four chunks.
C9_Witness ==
    /\ chunkPc = "split"
    /\ text = ExampleText
    /\ Len(sentences) = 4
    /\ sentences[1] = <<"A", "U3002">>

(***************************************************************************)
(* Properties of search                                                    *)
(***************************************************************************)
HitIds == {hits[i].original_doc_id : i \in 1..Len(hits)}

HitsOfDoc(d) == {i \in 1..Len(hits) : hits[i].original_doc_id = d}

BestScoreOf(d) ==
    CHOOSE s \in {hits[i].score : i \in HitsOfDoc(d)} :
        \A i \in HitsOfDoc(d) : hits[i].score <= s

\* The first hit of document d, in retrieval order, that has d's best score.
FirstBestHit(d) ==
    CHOOSE i \in HitsOfDoc(d) :
        /\ hits[i].score = BestScoreOf(d)
        /\ \A j \in HitsOfDoc(d) : hits[j].score = BestScoreOf(d) => i <= j

Aggregated == pc \in {"sort", "build", "return"}

Returned == pc = "done" /\ response.status = 200

ValidDocId(id) == 0 <= id /\ id < Len(documents)

\* C4: when a retrieved chunk's source_doc_id is not a valid 0-based index into
\* the loaded document list, the request ends with an explicit
\* data-consistency error, not with the unchecked index failure.
C4_ExplicitConsistencyError ==
    (pc = "done" /\ \E i \in 1..Len(hits) : ~ValidDocId(hits[i].original_doc_id))
        => response.status = 500 /\ response.detail = "DataConsistencyError"

\* C6: every document with one or more hits has exactly one aggregated entry
\* and, when results are returned, exactly one result; its score is the maximum
\* score among the document's hits and its hit_chunk is the content of a hit of
\* the document that has that maximum score.
C6_MaxPerDocument ==
    /\ Aggregated =>
         /\ {doc_scores.keys[i] : i \in 1..Len(doc_scores.keys)} = HitIds
         /\ \A d \in HitIds :
              /\ Cardinality({i \in 1..Len(doc_scores.keys) : doc_scores.keys[i] = d}) = 1
              /\ Value(doc_scores, d).score = BestScoreOf(d)
              /\ \E j \in HitsOfDoc(d) :
                    /\ hits[j].score = BestScoreOf(d)
                    /\ hits[j].content = Value(doc_scores, d).hit_chunk
    /\ Returned =>
         /\ Len(response.results) = Cardinality(HitIds)
         /\ \A d \in HitIds :
              /\ Cardinality({i \in 1..Len(sorted_doc_ids) : sorted_doc_ids[i] = d}) = 1
              /\ \A i \in 1..Len(response.results) :
                   sorted_doc_ids[i] = d =>
                     /\ response.results[i].title = documents[d + 1].title
                     /\ response.results[i].score = BestScoreOf(d)
                     /\ \E j \in HitsOfDoc(d) :
                           /\ hits[j].score = BestScoreOf(d)
                           /\ hits[j].content = response.results[i].hit_chunk

\* C6 witness: a returned search in which one document had two hits of
\* different scores, the better one retrieved second.
C6_Witness ==
    /\ Returned
    /\ \E i, j \in 1..Len(hits) :
          /\ i < j
          /\ hits[i].original_doc_id = hits[j].original_doc_id
          /\ hits[i].score < hits[j].score
    /\ Len(response.results) = 2

\* C7: the returned results are in non-increasing order of score.
C7_SortedByScore ==
    Returned =>
        \A i \in 1..(Len(response.results) - 1) :
            response.results[i].score >= response.results[i + 1].score

\* C7 witness: three results returned, not all of one score, from hits the
\* store returned in increasing order of score.
C7_Witness ==
    /\ Returned
    /\ Len(response.results) = 3
    /\ response.results[1].score > response.results[3].score
    /\ hits[1].score < hits[3].score

\* C8: for a non-empty query the number of results is at most SEARCH_K and at
\* most the number of distinct source_doc_id values among the retrieved hits.
C8_ResultCount ==
    (pc = "done" /\ Strip(q) # <<>>) =>
        /\ Len(response.results) <= SEARCH_K
        /\ Len(response.results) <= Cardinality(HitIds)

\* C8 witness: SEARCH_K hits over fewer documents, one result per document.
C8_Witness ==
    /\ Returned
    /\ Len(hits) = SEARCH_K
    /\ Cardinality(HitIds) < SEARCH_K
    /\ Len(response.results) = Cardinality(HitIds)

\* C10: the hit_chunk kept for a document is the content of the first hit, in
\* retrieval order, among the document's hits of maximum score.
C10_FirstSeenWins ==
    /\ Aggregated =>
         \A d \in HitIds :
             Value(doc_scores, d).hit_chunk = hits[FirstBestHit(d)].content
    /\ Returned =>
         \A i \in 1..Len(response.results) :
             response.results[i].hit_chunk
                 = hits[FirstBestHit(sorted_doc_ids[i])].content

\* C10 witness: two hits of one document tie at its maximum score and the
\* result carries the content of the earlier one.
C10_Witness ==
    /\ Returned
    /\ \E i, j \in 1..Len(hits) :
          /\ i < j
          /\ hits[i].original_doc_id = hits[j].original_doc_id
          /\ hits[i].score = hits[j].score
          /\ hits[i].content # hits[j].content
          /\ \E r \in 1..Len(response.results) :
                response.results[r].hit_chunk = hits[i].content

(***************************************************************************)
(* Specifications                                                          *)
(***************************************************************************)
\* One search request against a loaded table.
Init == SearchInit /\ ChunkIdle /\ ServeIdle /\ IngestIdle

Next ==
    \/ RejectEmpty /\ UNCHANGED <<chunkVars, serveVars, ingestVars>>
    \/ Encode /\ UNCHANGED <<chunkVars, serveVars, ingestVars>>
    \/ GetConn /\ UNCHANGED <<chunkVars, serveVars, ingestVars>>
    \/ Query /\ UNCHANGED <<chunkVars, serveVars, ingestVars>>
    \/ PutConn /\ UNCHANGED <<chunkVars, serveVars, ingestVars>>
    \/ AggregateHits /\ UNCHANGED <<chunkVars, serveVars, ingestVars>>
    \/ SortDocIds /\ UNCHANGED <<chunkVars, serveVars, ingestVars>>
    \/ BuildResults /\ UNCHANGED <<chunkVars, serveVars, ingestVars>>
    \/ Return /\ UNCHANGED <<chunkVars, serveVars, ingestVars>>
    \/ Caught /\ UNCHANGED <<chunkVars, serveVars, ingestVars>>

Spec == Init /\ [][Next]_vars

\* The chunker on every short text.
InitChunk == ChunkInit /\ SearchIdle /\ ServeIdle /\ IngestIdle

NextChunk == SplitIntoSentences /\ UNCHANGED <<searchVars, serveVars, ingestVars>>

SpecChunk == InitChunk /\ [][NextChunk]_vars

\* Concurrent requests to one serving process.
InitServe == ServeInit /\ SearchIdle /\ ChunkIdle /\ IngestIdle

NextServe ==
    \E r \in Requests :
        \/ Arrive(r) /\ UNCHANGED <<chunkVars, searchVars, ingestVars>>
        \/ CacheLookup(r) /\ UNCHANGED <<chunkVars, searchVars, ingestVars>>
        \/ Construct(r) /\ UNCHANGED <<chunkVars, searchVars, ingestVars>>
        \/ CacheStore(r) /\ UNCHANGED <<chunkVars, searchVars, ingestVars>>
        \/ Show(r) /\ UNCHANGED <<chunkVars, searchVars, ingestVars>>
        \/ ServeEncode(r) /\ UNCHANGED <<chunkVars, searchVars, ingestVars>>
        \/ ServeGetConn(r) /\ UNCHANGED <<chunkVars, searchVars, ingestVars>>
        \/ ServeGetConnTimeout(r) /\ UNCHANGED <<chunkVars, searchVars, ingestVars>>
        \/ ServeQuery(r) /\ UNCHANGED <<chunkVars, searchVars, ingestVars>>
        \/ ServePutConn(r) /\ UNCHANGED <<chunkVars, searchVars, ingestVars>>
        \/ ServeFinish(r) /\ UNCHANGED <<chunkVars, searchVars, ingestVars>>

SpecServe == InitServe /\ [][NextServe]_vars

\* One ingestion run beside search queries on the same database.
InitIngest == IngestInit /\ SearchIdle /\ ChunkIdle /\ ServeIdle

NextIngest ==
    \/ Connect /\ UNCHANGED <<chunkVars, searchVars, serveVars>>
    \/ DropTable /\ UNCHANGED <<chunkVars, searchVars, serveVars>>
    \/ CreateTable /\ UNCHANGED <<chunkVars, searchVars, serveVars>>
    \/ CopyRow /\ UNCHANGED <<chunkVars, searchVars, serveVars>>
    \/ CopyEnd /\ UNCHANGED <<chunkVars, searchVars, serveVars>>
    \/ CreateIndex /\ UNCHANGED <<chunkVars, searchVars, serveVars>>
    \/ Commit /\ UNCHANGED <<chunkVars, searchVars, serveVars>>
    \/ IngestFails /\ UNCHANGED <<chunkVars, searchVars, serveVars>>
    \/ \E r \in Readers :
          ReaderSelect(r) /\ UNCHANGED <<chunkVars, searchVars, serveVars>>

SpecIngest == InitIngest /\ [][NextIngest]_vars

=============================================================================
